---- MODULE Spec2Model ----
(***************************************************************************)
(* Model of dock.py: the auto-hide state machine of DockWindow, its        *)
(* edge-relative geometry, and the button table of SettingsDialog.         *)
(*                                                                         *)
(* The event loop is single-threaded: every handler runs to completion,    *)
(* so each handler is one atomic action.  Timer and animation deadlines    *)
(* are not modelled (the event loop gives no timing guarantee once it has  *)
(* been blocked), only the order in which the handlers run.                *)
(***************************************************************************)
EXTENDS Integers, Sequences, FiniteSets, TLC

\* ------------------------------------------------------------ bounds ----
MaxOffset == 3        \* largest dock_offset drawn (the slider allows 0..100)
MaxDockSpan == 24     \* largest dock width/height drawn
SmallScreen == 20     \* the smaller screen span drawn
LargeScreen == 40     \* the larger screen span drawn
AnimSteps == 2        \* animation ticks from start to finish
MaxRows == 3          \* most rows of the button table
MaxEdits == 1         \* most appearance widgets the user changes in the settings dialogs

\* --------------------------------------------------- program constants --
HiddenSliver == 5     \* units of the dock left on screen when hidden
MinDockSpan == 16     \* left+right (top+bottom) contents margins, 8 + 8

EDGE_TOP == "top"
EDGE_BOTTOM == "bottom"
EDGE_LEFT == "left"
EDGE_RIGHT == "right"
Edges == {EDGE_LEFT, EDGE_RIGHT, EDGE_TOP, EDGE_BOTTOM}

is_horizontal(e) == e \in {EDGE_TOP, EDGE_BOTTOM}

Offsets == {0, MaxOffset}
DockSpans == {MinDockSpan, MaxDockSpan}
\* The size adjustSize gives the dock: a row of buttons (QHBoxLayout) on the top and
\* bottom edges, a column (QVBoxLayout) on the left and right edges.
update_size(e) ==
    IF e \in {EDGE_LEFT, EDGE_RIGHT}
    THEN [width |-> MinDockSpan, height |-> MaxDockSpan]
    ELSE [width |-> MaxDockSpan, height |-> MinDockSpan]
Screens == [width : {SmallScreen, LargeScreen}, height : {SmallScreen, LargeScreen}]

VARIABLES
    edge,                  \* DockWindow.edge
    dock_offset,           \* DockWindow.dock_offset
    screen,                \* QApplication.primaryScreen().geometry(): width, height
    geometry,              \* DockWindow.geometry(): x, y, width, height
    is_hidden,             \* DockWindow.is_hidden
    settings_dialog_open,  \* DockWindow.settings_dialog_open
    hide_timer,            \* DockWindow.hide_timer is active (single shot)
    animation,             \* DockWindow.animation: state, startValue, endValue, currentTime
    dialog_exec,           \* the modal SettingsDialog: "never" | "running" | "finished"
    last_pointer,          \* history: the most recent pointer event, "none" | "enter" | "leave"
    quiet,                 \* history: no pointer or dialog event since the last pointer-leave
    debounce_cancelled,    \* history: the most recent pointer-enter stopped a pending timer
    suppressed,            \* history: the open dialog kept the last expiry of the timer from
                           \* hiding the dock, and no pointer event has come since
    table,                 \* SettingsDialog.buttons_table: the rows, top to bottom
    buttons_file,          \* buttons.json: state "missing" | "corrupt" | "ok", and its "buttons" array
    selected_row,          \* the row selected in buttons_table, -1 for none
    raised,                \* the exception that ended the process, "none" while it runs
    last_call,             \* history: the last operation called by index, and the index
    transparency,          \* DockWindow.transparency
    dock_color,            \* DockWindow.dock_color
    corner_radius,         \* DockWindow.corner_radius
    icon_size,             \* DockWindow.icon_size
    layout_spacing,        \* DockWindow.layout_spacing
    border_width,          \* DockWindow.border_width, in tenths of a pixel
    border_color,          \* DockWindow.border_color
    buttons,               \* DockWindow.buttons: the button_config of each dock button
    settings_file,         \* settings.json: state "missing" | "corrupt" | "ok", and its document
    writable,              \* environment: the files can be written
    warnings,              \* the texts of the QMessageBox.warning boxes shown so far
    edits,                 \* the number of appearance widgets the user has changed so far
    launched,              \* history: what the last click on a dock button launched
    started_with           \* history: the states of the two files the last start found

dock_vars == <<edge, dock_offset, screen, geometry, is_hidden, settings_dialog_open,
               hide_timer, animation, dialog_exec, last_pointer, quiet,
               debounce_cancelled, suppressed>>

table_vars == <<table, buttons_file, selected_row, raised, last_call>>

appearance_vars == <<transparency, dock_color, corner_radius, icon_size, layout_spacing,
                     border_width, border_color>>

config_vars == <<appearance_vars, buttons, settings_file, writable, warnings, edits,
                 launched, started_with>>

vars == <<dock_vars, table_vars, config_vars>>

\* -------------------------------------------------------- geometry ------
QRect(x, y, w, h) == [x |-> x, y |-> y, width |-> w, height |-> h]

NullRect == QRect(0, 0, 0, 0)


\* The x, y that place_dock moves a dock of size w * h to.
place_dock(e, off, w, h, scr) ==
    QRect(IF is_horizontal(e) THEN (scr.width - w) \div 2
          ELSE IF e = EDGE_LEFT THEN off ELSE scr.width - w - off,
          IF ~is_horizontal(e) THEN (scr.height - h) \div 2
          ELSE IF e = EDGE_TOP THEN off ELSE scr.height - h - off,
          w, h)

\* Faulty variant: the right and bottom edges forget the dock's own extent.
get_visible_geometry_no_extent ==
    QRect(IF is_horizontal(edge) THEN (screen.width - geometry.width) \div 2
          ELSE IF edge = EDGE_LEFT THEN dock_offset
               ELSE screen.width - dock_offset,
          IF ~is_horizontal(edge) THEN (screen.height - geometry.height) \div 2
          ELSE IF edge = EDGE_TOP THEN dock_offset
               ELSE screen.height - dock_offset,
          geometry.width, geometry.height)

get_visible_geometry ==
    QRect(IF is_horizontal(edge) THEN (screen.width - geometry.width) \div 2
          ELSE IF edge = EDGE_LEFT THEN dock_offset
               ELSE screen.width - geometry.width - dock_offset,
          IF ~is_horizontal(edge) THEN (screen.height - geometry.height) \div 2
          ELSE IF edge = EDGE_TOP THEN dock_offset
               ELSE screen.height - geometry.height - dock_offset,
          geometry.width, geometry.height)

\* Faulty variant: the sliver is subtracted on the left and top edges, so nothing stays
\* on screen.
get_hidden_geometry_no_sliver ==
    LET current == geometry
        x == IF edge = EDGE_LEFT THEN -geometry.width - HiddenSliver
             ELSE IF edge = EDGE_RIGHT THEN screen.width - HiddenSliver
             ELSE current.x
        y == IF edge = EDGE_LEFT \/ edge = EDGE_RIGHT THEN current.y
             ELSE IF edge = EDGE_TOP THEN -geometry.height - HiddenSliver
             ELSE IF edge = EDGE_BOTTOM THEN screen.height - HiddenSliver
             ELSE current.y
    IN QRect(x, y, current.width, current.height)

get_hidden_geometry ==
    LET current == geometry
        x == IF edge = EDGE_LEFT THEN -geometry.width + HiddenSliver
             ELSE IF edge = EDGE_RIGHT THEN screen.width - HiddenSliver
             ELSE current.x
        y == IF edge = EDGE_LEFT \/ edge = EDGE_RIGHT THEN current.y
             ELSE IF edge = EDGE_TOP THEN -geometry.height + HiddenSliver
             ELSE IF edge = EDGE_BOTTOM THEN screen.height - HiddenSliver
             ELSE current.y
    IN QRect(x, y, current.width, current.height)

\* resizeEvent: a geometry whose size differs from the current one is re-placed.
resizeEvent(new) ==
    IF new.width # geometry.width \/ new.height # geometry.height
    THEN place_dock(edge, dock_offset, new.width, new.height, screen)
    ELSE new

\* ------------------------------------------------------- animation ------
\* int(n / d), truncating towards zero
TruncDiv(n, d) == IF n >= 0 THEN n \div d ELSE -((-n) \div d)

\* OutCubic easing of the progress k / AnimSteps, as a numerator over AnimSteps^3
OutCubic(k) == AnimSteps ^ 3 - (AnimSteps - k) ^ 3

Lerp(a, b, k) == a + TruncDiv((b - a) * OutCubic(k), AnimSteps ^ 3)

\* The animated geometry at tick k between two key values.
Interpolate(from, to, k) ==
    QRect(Lerp(from.x, to.x, k), Lerp(from.y, to.y, k),
          Lerp(from.width, to.width, k), Lerp(from.height, to.height, k))

\* A stopped animation.  Its key values and time are never read again (every start
\* sets both key values first), so they are not kept.
StoppedAnimation ==
    [state |-> "Stopped", startValue |-> NullRect, endValue |-> NullRect, currentTime |-> 0]

\* setStartValue(geometry()); setEndValue(target); start().  A stopped animation
\* starts at time 0.  start() on a running animation returns at once: the new key
\* values apply from the time already elapsed.
animation_start(target) ==
    [state |-> "Running", startValue |-> geometry, endValue |-> target,
     currentTime |-> IF animation.state = "Running" THEN animation.currentTime ELSE 0]

\* The geometry after the key values of the animation were set to (geometry, target).
animation_value(target) ==
    IF animation.state = "Running"
    THEN resizeEvent(Interpolate(geometry, target, animation.currentTime))
    ELSE geometry

\* ------------------------------------------------- the button table ----
\* The buttons of the sample buttons.json documents.
SampleButtons ==
    {[name |-> "a", icon |-> "a.png", action |-> "https://a"],
     [name |-> "b", icon |-> "b.png", action |-> "b.exe"]}

\* The texts a user types into a name cell.
NameTexts == {" ", "z"}

\* The row add_new_button appends.
Placeholder == [name |-> "", icon |-> "", action |-> ""]

BoundedSeq(S, n) == UNION {[1..k -> S] : k \in 0..n}

rowCount == Len(table)

\* name.strip(), over the texts of the model
strip(text) == IF text = " " THEN "" ELSE text

\* A table row: its three cells and its controls widget.  r is the row number bound
\* into the lambdas of the move-up, move-down and delete buttons when the widget was
\* created; up_enabled and down_enabled are the enabled states of the move buttons.
create_controls_widget(button, row, count) ==
    [name |-> button.name, icon |-> button.icon, action |-> button.action,
     r |-> row, up_enabled |-> row > 0, down_enabled |-> row < count - 1]

\* The table load_buttons_to_table builds from the buttons of the file.
load_buttons_to_table(add_empty_row) ==
    IF buttons_file.state = "ok"
    THEN LET listed == IF add_empty_row THEN Append(buttons_file.buttons, Placeholder)
                       ELSE buttons_file.buttons
         IN [i \in 1..Len(listed) |->
                create_controls_widget(listed[i], i - 1, Len(listed))]
    ELSE table    \* json.load raises: a warning is shown, the table is left as it is

get_row_data(tbl, row) ==
    [name |-> tbl[row + 1].name, icon |-> tbl[row + 1].icon, action |-> tbl[row + 1].action]

set_row_data(tbl, row, data) ==
    [tbl EXCEPT ![row + 1].name = data.name, ![row + 1].icon = data.icon,
                ![row + 1].action = data.action]

\* update_row_controls on each row of rows: a row the table does not have has no
\* controls widget and is skipped.
update_row_controls(tbl, rows) ==
    [i \in 1..Len(tbl) |->
        IF (i - 1) \in rows
        THEN [tbl[i] EXCEPT !.up_enabled = (i - 1) > 0,
                            !.down_enabled = (i - 1) < Len(tbl) - 1]
        ELSE tbl[i]]

\* The descriptors of the table, top to bottom.
ButtonList(tbl) == [i \in 1..Len(tbl) |-> get_row_data(tbl, i - 1)]

\* The selection after the table was given count rows.
selection_kept(count) == IF selected_row < count THEN selected_row ELSE -1

\* Faulty variant: the guard is off by one, so row 0 is swapped with a row above it that
\* the table does not have.
move_button_up_off_by_one(row) ==
    IF row >= 0
    THEN IF row >= rowCount \/ row - 1 < 0
         THEN /\ raised' = "AttributeError"
              /\ UNCHANGED <<table, selected_row>>
         ELSE LET current_data == get_row_data(table, row)
                  above_data == get_row_data(table, row - 1)
                  swapped == set_row_data(set_row_data(table, row, above_data),
                                          row - 1, current_data)
              IN /\ table' = update_row_controls(swapped, {row, row - 1})
                 /\ selected_row' = row - 1
                 /\ UNCHANGED raised
    ELSE UNCHANGED <<table, selected_row, raised>>

\* The effect of move_button_up(row) on table, selected_row and raised.  A row the
\* table does not have has no cells: get_row_data raises AttributeError.
move_button_up(row) ==
    IF row > 0
    THEN IF row >= rowCount
         THEN /\ raised' = "AttributeError"
              /\ UNCHANGED <<table, selected_row>>
         ELSE LET current_data == get_row_data(table, row)
                  above_data == get_row_data(table, row - 1)
                  swapped == set_row_data(set_row_data(table, row, above_data),
                                          row - 1, current_data)
              IN /\ table' = update_row_controls(swapped, {row, row - 1})
                 /\ selected_row' = row - 1
                 /\ UNCHANGED raised
    ELSE UNCHANGED <<table, selected_row, raised>>

\* Faulty variant: the rows are swapped but the selection stays where it was.
move_button_down_keeps_selection(row) ==
    IF row < rowCount - 1
    THEN LET current_data == get_row_data(table, row)
             below_data == get_row_data(table, row + 1)
             swapped == set_row_data(set_row_data(table, row, below_data),
                                     row + 1, current_data)
         IN /\ table' = update_row_controls(swapped, {row, row + 1})
            /\ UNCHANGED <<selected_row, raised>>
    ELSE UNCHANGED <<table, selected_row, raised>>

\* The effect of move_button_down(row) on table, selected_row and raised.
move_button_down(row) ==
    IF row < rowCount - 1
    THEN LET current_data == get_row_data(table, row)
             below_data == get_row_data(table, row + 1)
             swapped == set_row_data(set_row_data(table, row, below_data),
                                     row + 1, current_data)
         IN /\ table' = update_row_controls(swapped, {row, row + 1})
            /\ selected_row' = row + 1
            /\ UNCHANGED raised
    ELSE UNCHANGED <<table, selected_row, raised>>

\* removeRow(row): the rows below move up with their cells and controls widgets; a
\* row the table does not have removes nothing.
removeRow(tbl, row) ==
    IF row >= 0 /\ row < Len(tbl)
    THEN [i \in 1..(Len(tbl) - 1) |-> IF i <= row THEN tbl[i] ELSE tbl[i + 1]]
    ELSE tbl

\* The effect of delete_button(row) on table, selected_row and raised, the user
\* answering the confirmation with Yes (confirmed) or No.
delete_button(row, confirmed) ==
    IF confirmed
    THEN /\ table' = update_row_controls(removeRow(table, row), 0..(rowCount - 1))
         /\ selected_row' = IF row >= rowCount \/ selected_row < row THEN selected_row
                            ELSE IF selected_row = row THEN -1
                            ELSE selected_row - 1
         /\ UNCHANGED raised
    ELSE UNCHANGED <<table, selected_row, raised>>

\* Faulty variant: the rows with a blank name are written too.
saved_buttons_keeps_blank(tbl) == ButtonList(tbl)

\* The buttons save_buttons writes: the rows whose name is not blank.
RECURSIVE saved_buttons(_)
saved_buttons(tbl) ==
    IF tbl = <<>> THEN <<>>
    ELSE IF strip(Head(tbl).name) = "" THEN saved_buttons(Tail(tbl))
    ELSE <<get_row_data(tbl, 0)>> \o saved_buttons(Tail(tbl))

\* ----------------------------------------------- the two documents ----
SettingsKeys ==
    {"dock_position", "transparency", "dock_color", "corner_radius", "icon_size",
     "layout_spacing", "dock_offset", "border_width", "border_color"}

\* border_width is a number of pixels that need not be whole: it is held in tenths
\* of a pixel, so 10 is the 1 of the source.
get_default_settings ==
    [dock_position |-> EDGE_LEFT, transparency |-> 60, corner_radius |-> 16,
     dock_color |-> "#000000", icon_size |-> 32, layout_spacing |-> 5,
     dock_offset |-> 10, border_width |-> 10, border_color |-> "#FFFFFF"]

\* A settings.json that holds document doc.
SettingsFile(doc) == [state |-> "ok", doc |-> doc]

\* A buttons.json that holds {"buttons": list}.
ButtonsFile(list) == [state |-> "ok", buttons |-> list]

\* settings.get(key, default)
settings_get(settings, key, default) ==
    IF key \in DOMAIN settings THEN settings[key] ELSE default

\* The keys load_settings reads with settings[key]: a document without one of them
\* raises KeyError, which load_settings does not catch.
RequiredKeys == {"dock_position", "transparency", "dock_color"}

\* Faulty variant: a failed write of settings.json is not reported.
save_settings_silent(file, settings) ==
    IF writable
    THEN [file |-> SettingsFile(settings), warnings |-> {}]
    ELSE [file |-> file, warnings |-> {}]

\* save_settings(settings), with settings.json as file: the file afterwards and the
\* warnings shown.
save_settings(file, settings) ==
    IF writable
    THEN [file |-> SettingsFile(settings), warnings |-> {}]
    ELSE [file |-> file, warnings |-> {"Failed to save settings"}]

\* Faulty variant: the defaults taken for a missing or corrupt file are not written.
load_settings_no_write(file) ==
    LET settings == IF file.state = "ok" THEN file.doc ELSE get_default_settings
    IN [settings |-> settings, file |-> file, warnings |-> {},
        raised |-> IF RequiredKeys \subseteq DOMAIN settings THEN "none" ELSE "KeyError"]

\* load_settings, with settings.json as file: the settings dictionary it ends up
\* with, the file afterwards, the warnings shown and the exception raised.  The
\* fields of DockWindow are assigned from the dictionary by the caller of this
\* operator.
load_settings(file) ==
    LET settings == IF file.state = "ok" THEN file.doc ELSE get_default_settings
        saved == IF file.state = "ok" THEN [file |-> file, warnings |-> {}]
                 ELSE save_settings(file, get_default_settings)
    IN [settings |-> settings, file |-> saved.file, warnings |-> saved.warnings,
        raised |-> IF RequiredKeys \subseteq DOMAIN settings THEN "none" ELSE "KeyError"]

\* The in-memory settings, as the dictionary of their keys.
DockSettings ==
    [dock_position |-> edge, transparency |-> transparency, corner_radius |-> corner_radius,
     dock_color |-> dock_color, icon_size |-> icon_size, layout_spacing |-> layout_spacing,
     dock_offset |-> dock_offset, border_width |-> border_width,
     border_color |-> border_color]

\* The button list create_default_buttons_file writes.
default_buttons ==
    <<[name |-> "Google", icon |-> "icons/google.png", action |-> "https://www.google.com"]>>

\* create_default_buttons_file: the file afterwards and the warnings shown.
create_default_buttons_file(file) ==
    IF writable
    THEN [file |-> ButtonsFile(default_buttons), warnings |-> {}]
    ELSE [file |-> file, warnings |-> {"Failed to create buttons file"}]

\* load_buttons, with buttons.json as file: the file afterwards, the dock's buttons
\* and the warnings shown.  The dock's buttons are cleared before the file is read.
load_buttons(file) ==
    LET created == IF file.state = "missing" THEN create_default_buttons_file(file)
                   ELSE [file |-> file, warnings |-> {}]
    IN IF created.file.state = "ok"
       THEN [file |-> created.file, buttons |-> created.file.buttons,
             warnings |-> created.warnings]
       ELSE [file |-> created.file, buttons |-> <<>>,
             warnings |-> created.warnings \cup {"Failed to load buttons"}]

\* save_buttons: buttons.json afterwards and the warnings shown.
save_buttons ==
    IF writable
    THEN [file |-> ButtonsFile(saved_buttons(table)), warnings |-> {}]
    ELSE [file |-> buttons_file, warnings |-> {"Failed to save buttons"}]

\* ------------------------------------------- the customization tab -----
positions == <<EDGE_LEFT, EDGE_RIGHT, EDGE_TOP, EDGE_BOTTOM>>

\* The id of the position button that is checked when the dialog is created: the
\* index of the dock's edge in positions, -1 if no button is checked.
checkedId ==
    IF \E i \in 1..Len(positions) : positions[i] = edge
    THEN (CHOOSE i \in 1..Len(positions) : positions[i] = edge) - 1
    ELSE -1

\* The value of the slider _create_slider_control makes: int(current_val * scale),
\* brought into the slider's range by setValue.  current_val is in units of 1 / unit.
create_slider_control(min_val, max_val, current_val, scale, unit) ==
    LET value == TruncDiv(current_val * scale, unit)
    IN IF value < min_val * scale THEN min_val * scale
       ELSE IF value > max_val * scale THEN max_val * scale
       ELSE value

\* The widgets of a settings dialog in which the user has changed nothing.
setup_customization_tab ==
    [pos |-> checkedId,
     offset_slider |-> create_slider_control(0, 100, dock_offset, 1, 1),
     trans_slider |-> create_slider_control(0, 100, transparency, 1, 1),
     radius_slider |-> create_slider_control(0, 50, corner_radius, 1, 1),
     border_width_slider |-> create_slider_control(0, 10, border_width, 2, 10),
     icon_size_slider |-> create_slider_control(16, 64, icon_size, 1, 1),
     spacing_slider |-> create_slider_control(0, 30, layout_spacing, 1, 1)]

\* What the user changes in the dialog before Apply: the new values of some of the
\* widgets, by widget.
NoEdit == [w \in {} |-> 0]

with_edit(widgets, edit) ==
    [w \in DOMAIN widgets |-> IF w \in DOMAIN edit THEN edit[w] ELSE widgets[w]]

\* The appearance widgets among the changed ones (all but position and offset).
AppearanceEdits(edit) == Cardinality(DOMAIN edit \ {"pos", "offset_slider"})

\* The dictionary SettingsDialog.apply_settings emits for the widgets w.  A negative
\* index counts from the end of positions; the slider of border_width counts half
\* pixels, 5 tenths each.
new_settings(w) ==
    [dock_position |-> positions[IF w.pos < 0 THEN Len(positions) + w.pos + 1
                                 ELSE w.pos + 1],
     transparency |-> w.trans_slider,
     corner_radius |-> w.radius_slider,
     dock_color |-> dock_color,
     icon_size |-> w.icon_size_slider,
     layout_spacing |-> w.spacing_slider,
     dock_offset |-> w.offset_slider,
     border_width |-> w.border_width_slider * 5,
     border_color |-> border_color]

\* -------------------------------------------------- auto-hide state -----
AutoHideState ==
    IF is_hidden
    THEN IF animation.state = "Running" THEN "ANIMATING_OUT" ELSE "HIDDEN"
    ELSE IF animation.state = "Running" THEN "ANIMATING_IN" ELSE "VISIBLE"

\* Faulty variant: the hide does not look at is_hidden.
start_hide_animation_when_hidden ==
    IF ~settings_dialog_open
    THEN /\ is_hidden' = TRUE
         /\ animation' = animation_start(get_hidden_geometry)
         /\ geometry' = animation_value(get_hidden_geometry)
    ELSE UNCHANGED <<is_hidden, animation, geometry>>

\* Faulty variant: the hide does not look at settings_dialog_open.
start_hide_animation_unguarded ==
    IF ~is_hidden
    THEN /\ is_hidden' = TRUE
         /\ animation' = animation_start(get_hidden_geometry)
         /\ geometry' = animation_value(get_hidden_geometry)
    ELSE UNCHANGED <<is_hidden, animation, geometry>>

\* The effect of start_hide_animation on is_hidden, animation and geometry.
start_hide_animation ==
    IF ~is_hidden /\ ~settings_dialog_open
    THEN /\ is_hidden' = TRUE
         /\ animation' = animation_start(get_hidden_geometry)
         /\ geometry' = animation_value(get_hidden_geometry)
    ELSE UNCHANGED <<is_hidden, animation, geometry>>

\* Faulty variant: the show animation restarts from the fully hidden rect.
start_show_animation_from_hidden ==
    IF is_hidden
    THEN /\ is_hidden' = FALSE
         /\ animation' = [animation_start(get_visible_geometry)
                             EXCEPT !.startValue = get_hidden_geometry]
         /\ geometry' = animation_value(get_visible_geometry)
    ELSE UNCHANGED <<is_hidden, animation, geometry>>

\* The effect of start_show_animation on is_hidden, animation and geometry.
start_show_animation ==
    IF is_hidden
    THEN /\ is_hidden' = FALSE
         /\ animation' = animation_start(get_visible_geometry)
         /\ geometry' = animation_value(get_visible_geometry)
    ELSE UNCHANGED <<is_hidden, animation, geometry>>

\* Faulty variant: the pointer-enter leaves the debounce timer running.
enterEvent_keeps_timer ==
    /\ raised = "none"
    /\ UNCHANGED hide_timer
    /\ start_show_animation
    /\ last_pointer' = "enter"
    /\ quiet' = FALSE
    /\ debounce_cancelled' = hide_timer
    /\ suppressed' = FALSE
    /\ UNCHANGED <<edge, dock_offset, screen, settings_dialog_open, dialog_exec>>
    /\ UNCHANGED <<table_vars, config_vars>>

enterEvent ==
    /\ raised = "none"
    /\ hide_timer' = FALSE
    /\ start_show_animation
    /\ last_pointer' = "enter"
    /\ quiet' = FALSE
    /\ debounce_cancelled' = hide_timer
    /\ suppressed' = FALSE
    /\ UNCHANGED <<edge, dock_offset, screen, settings_dialog_open, dialog_exec>>
    /\ UNCHANGED <<table_vars, config_vars>>

\* Faulty variant: the pointer-leave does not start the debounce timer.
leaveEvent_no_timer ==
    /\ raised = "none"
    /\ UNCHANGED hide_timer
    /\ last_pointer' = "leave"
    /\ quiet' = TRUE
    /\ debounce_cancelled' = FALSE
    /\ suppressed' = FALSE
    /\ UNCHANGED <<edge, dock_offset, screen, geometry, is_hidden, settings_dialog_open,
                   animation, dialog_exec>>
    /\ UNCHANGED <<table_vars, config_vars>>

leaveEvent ==
    /\ raised = "none"
    /\ hide_timer' = TRUE
    /\ last_pointer' = "leave"
    /\ quiet' = TRUE
    /\ debounce_cancelled' = FALSE
    /\ suppressed' = FALSE
    /\ UNCHANGED <<edge, dock_offset, screen, geometry, is_hidden, settings_dialog_open,
                   animation, dialog_exec>>
    /\ UNCHANGED <<table_vars, config_vars>>

\* hide_timer.timeout: the single-shot timer expires and calls start_hide_animation.
hide_timer_timeout ==
    /\ raised = "none"
    /\ hide_timer
    /\ hide_timer' = FALSE
    /\ start_hide_animation
    /\ suppressed' = (~is_hidden /\ settings_dialog_open)
    /\ UNCHANGED <<edge, dock_offset, screen, settings_dialog_open, dialog_exec,
                   last_pointer, quiet, debounce_cancelled>>
    /\ UNCHANGED <<table_vars, config_vars>>

\* One tick of the running animation; the last tick sets the end value and stops it.
animation_tick ==
    /\ raised = "none"
    /\ animation.state = "Running"
    /\ LET k == animation.currentTime + 1
       IN /\ animation' = IF k >= AnimSteps THEN StoppedAnimation
                          ELSE [animation EXCEPT !.currentTime = k]
          /\ geometry' = resizeEvent(Interpolate(animation.startValue, animation.endValue,
                                                 IF k >= AnimSteps THEN AnimSteps ELSE k))
    /\ UNCHANGED <<edge, dock_offset, screen, is_hidden, settings_dialog_open, hide_timer,
                   dialog_exec, last_pointer, quiet, debounce_cancelled,
                   suppressed>>
    /\ UNCHANGED <<table_vars, config_vars>>

\* The settings button is clicked; dialog.exec() is modal, so no second dialog opens.
\* SettingsDialog.__init__ loads the table of the new dialog from buttons.json.
show_settings ==
    /\ raised = "none"
    /\ dialog_exec # "running"
    /\ settings_dialog_open' = TRUE
    /\ start_show_animation
    /\ dialog_exec' = "running"
    /\ quiet' = FALSE
    /\ table' = IF buttons_file.state = "ok" THEN load_buttons_to_table(FALSE) ELSE <<>>
    /\ selected_row' = -1
    /\ warnings' = warnings \cup (IF buttons_file.state = "ok" THEN {}
                                  ELSE {"Failed to load buttons"})
    /\ UNCHANGED <<edge, dock_offset, screen, hide_timer, last_pointer, debounce_cancelled,
                   suppressed>>
    /\ UNCHANGED <<buttons_file, raised, last_call>>
    /\ UNCHANGED <<appearance_vars, buttons, settings_file, writable, edits, launched,
                   started_with>>

\* Faulty variant: closing the dialog leaves settings_dialog_open set.
on_settings_dialog_closed_sticky ==
    /\ raised = "none"
    /\ dialog_exec = "running"
    /\ UNCHANGED settings_dialog_open
    /\ dialog_exec' = "finished"
    /\ quiet' = FALSE
    /\ UNCHANGED <<edge, dock_offset, screen, geometry, is_hidden, hide_timer, animation,
                   last_pointer, debounce_cancelled,
                   suppressed>>
    /\ UNCHANGED <<table_vars, config_vars>>

\* Faulty variant: closing the dialog starts the timer again if the pointer is away.
on_settings_dialog_closed_rearms ==
    /\ raised = "none"
    /\ dialog_exec = "running"
    /\ settings_dialog_open' = FALSE
    /\ dialog_exec' = "finished"
    /\ quiet' = FALSE
    /\ hide_timer' = (hide_timer \/ last_pointer = "leave")
    /\ UNCHANGED <<edge, dock_offset, screen, geometry, is_hidden, animation,
                   last_pointer, debounce_cancelled,
                   suppressed>>
    /\ UNCHANGED <<table_vars, config_vars>>

on_settings_dialog_closed ==
    /\ raised = "none"
    /\ dialog_exec = "running"
    /\ settings_dialog_open' = FALSE
    /\ dialog_exec' = "finished"
    /\ quiet' = FALSE
    /\ UNCHANGED <<edge, dock_offset, screen, geometry, is_hidden, hide_timer, animation,
                   last_pointer, debounce_cancelled,
                   suppressed>>
    /\ UNCHANGED <<table_vars, config_vars>>

\* DockWindow.apply_settings(settings), on the settings_applied signal of the dialog;
\* file is buttons.json as save_buttons left it and shown the warnings it showed.
\* The fields are assigned, settings.json is written, the dock's buttons are loaded
\* again, update_size gives the layout's new size and place_dock moves the dock.
apply_settings(settings, file, shown) ==
    \E saved \in {save_settings(settings_file, settings)}, loaded \in {load_buttons(file)} :
       /\ edge' = settings.dock_position
       /\ transparency' = settings.transparency
       /\ corner_radius' = settings_get(settings, "corner_radius", 16)
       /\ dock_color' = settings.dock_color
       /\ icon_size' = settings_get(settings, "icon_size", 32)
       /\ layout_spacing' = settings_get(settings, "layout_spacing", 5)
       /\ dock_offset' = settings_get(settings, "dock_offset", 10)
       /\ border_width' = settings_get(settings, "border_width", 10)
       /\ border_color' = settings_get(settings, "border_color", "#FFFFFF")
       /\ settings_file' = saved.file
       /\ buttons_file' = loaded.file
       /\ buttons' = loaded.buttons
       /\ warnings' = warnings \cup shown \cup saved.warnings \cup loaded.warnings
       /\ geometry' = place_dock(edge', dock_offset', update_size(edge').width,
                                 update_size(edge').height, screen)

\* What a click on Apply does, the user having changed the widgets of edit since the
\* dialog was created or last applied: save_buttons, then the settings_applied signal.
apply_clicked(edit) ==
    /\ raised = "none"
    /\ dialog_exec = "running"
    /\ \E changed \in {AppearanceEdits(edit)} :
          /\ edits + changed <= MaxEdits
          /\ edits' = edits + changed
    /\ \E settings \in {new_settings(with_edit(setup_customization_tab, edit))},
          saved \in {save_buttons} :
             apply_settings(settings, saved.file, saved.warnings)
    /\ quiet' = FALSE
    /\ UNCHANGED <<screen, is_hidden, hide_timer, animation, last_pointer,
                   debounce_cancelled,
                   suppressed>>
    /\ UNCHANGED <<table, selected_row, raised, last_call>>
    /\ UNCHANGED <<writable, launched, started_with>>

\* SettingsDialog.apply_settings: the Apply button.
SettingsDialog_apply_settings(edit) ==
    /\ apply_clicked(edit)
    /\ UNCHANGED <<settings_dialog_open, dialog_exec>>

\* apply_and_close_settings: the Apply & Close button; close() finishes the dialog.
apply_and_close_settings(edit) ==
    /\ apply_clicked(edit)
    /\ settings_dialog_open' = FALSE
    /\ dialog_exec' = "finished"

\* _choose_color: the colour dialog, accepted with a valid colour or cancelled.
choose_color(color, accepted) ==
    /\ raised = "none"
    /\ dialog_exec = "running"
    /\ edits < MaxEdits
    /\ IF accepted
       THEN dock_color' = color /\ edits' = edits + 1
       ELSE UNCHANGED <<dock_color, edits>>
    /\ UNCHANGED <<transparency, corner_radius, icon_size, layout_spacing, border_width,
                   border_color, buttons, settings_file, writable, warnings, launched,
                   started_with>>
    /\ UNCHANGED <<dock_vars, table_vars>>

\* _choose_border_color
choose_border_color(color, accepted) ==
    /\ raised = "none"
    /\ dialog_exec = "running"
    /\ edits < MaxEdits
    /\ IF accepted
       THEN border_color' = color /\ edits' = edits + 1
       ELSE UNCHANGED <<border_color, edits>>
    /\ UNCHANGED <<transparency, dock_color, corner_radius, icon_size, layout_spacing,
                   border_width, buttons, settings_file, writable, warnings, launched,
                   started_with>>
    /\ UNCHANGED <<dock_vars, table_vars>>

NoCall == [op |-> "none", row |-> -1]

\* ----------------------------------------------- the button actions -----
\* The action texts of the sample buttons, as their characters.
characters(text) ==
    CASE text = "" -> <<>>
      [] text = " " -> <<" ">>
      [] text = "https://a" -> <<"h", "t", "t", "p", "s", ":", "/", "/", "a">>
      [] text = "http://a" -> <<"h", "t", "t", "p", ":", "/", "/", "a">>
      [] text = "www.a" -> <<"w", "w", "w", ".", "a">>
      [] text = " www.a" -> <<" ", "w", "w", "w", ".", "a">>
      [] text = "wwwa" -> <<"w", "w", "w", "a">>
      [] text = "$H/f" -> <<"$", "H", "/", "f">>
      [] text = "/h/f" -> <<"/", "h", "/", "f">>
      [] text = "ls" -> <<"l", "s">>
      [] text = "-l" -> <<"-", "l">>
      [] text = "b.exe" -> <<"b", ".", "e", "x", "e">>
      [] text = "ls -l " -> <<"l", "s", " ", "-", "l", " ">>
      [] text = "https://www.google.com" ->
            <<"h", "t", "t", "p", "s", ":", "/", "/", "w", "w", "w", ".", "g", "o", "o",
              "g", "l", "e", ".", "c", "o", "m">>

Whitespace == {" "}

RECURSIVE lstrip(_)
lstrip(text) ==
    IF text # <<>> /\ Head(text) \in Whitespace THEN lstrip(Tail(text)) ELSE text

RECURSIVE rstrip(_)
rstrip(text) ==
    IF text # <<>> /\ text[Len(text)] \in Whitespace
    THEN rstrip(SubSeq(text, 1, Len(text) - 1))
    ELSE text

\* str.strip(), on the characters of a text
str_strip(text) == rstrip(lstrip(text))

\* str.startswith(prefixes)
startswith(text, prefixes) ==
    \E prefix \in prefixes :
       Len(prefix) <= Len(text) /\ SubSeq(text, 1, Len(prefix)) = prefix

\* The prefixes of line 995: http://, https:// and www.
UrlPrefixes ==
    {<<"h", "t", "t", "p", ":", "/", "/">>, <<"h", "t", "t", "p", "s", ":", "/", "/">>,
     <<"w", "w", "w", ".">>}

\* os.path.expandvars, in an environment whose only variable is H, with value /h.
RECURSIVE expandvars(_)
expandvars(text) ==
    IF text = <<>> THEN <<>>
    ELSE IF Len(text) >= 2 /\ text[1] = "$" /\ text[2] = "H"
    THEN <<"/", "h">> \o expandvars(SubSeq(text, 3, Len(text)))
    ELSE <<Head(text)>> \o expandvars(Tail(text))

\* str.split(): the words between runs of whitespace.
RECURSIVE split(_)
split(text) ==
    LET rest == lstrip(text)
        word == CHOOSE n \in 1..Len(rest) :
                   /\ \A k \in 1..n : rest[k] \notin Whitespace
                   /\ n = Len(rest) \/ rest[n + 1] \in Whitespace
    IN IF rest = <<>> THEN <<>>
       ELSE <<SubSeq(rest, 1, word)>> \o split(SubSeq(rest, word + 1, Len(rest)))

\* How Popen with shell=False ends: the process is started, OSError or one of its
\* subclasses (FileNotFoundError) is raised, or another exception is.
DirectOutcomes == {"started", "OSError", "raises"}

\* How webbrowser.open, os.startfile and Popen with shell=True end: the target is
\* launched; the call returns having launched nothing (webbrowser.open returns False,
\* the shell is started and does not find the command); an exception is raised.
OtherOutcomes == {"ok", "failed", "raises"}

\* Faulty variant: the shell launch is made whether or not the direct launch failed.
handle_button_click_shell_always(button_config, exists, direct, other) ==
    LET action == str_strip(characters(button_config.action))
        shown == IF other = "raises" THEN {"Failed to execute action"} ELSE {}
    IN IF action = <<>>
       THEN [route |-> "none", calls |-> <<>>, warnings |-> {}]
       ELSE IF startswith(action, UrlPrefixes)
       THEN [route |-> "browser",
             calls |-> <<[fn |-> "webbrowser.open", args |-> <<action>>,
                          outcome |-> other]>>,
             warnings |-> shown]
       ELSE IF exists
       THEN [route |-> "open-path",
             calls |-> <<[fn |-> "os.startfile", args |-> <<expandvars(action)>>,
                          outcome |-> other]>>,
             warnings |-> shown]
       ELSE [route |-> "command",
             calls |-> <<[fn |-> "Popen", args |-> split(action), outcome |-> direct],
                         [fn |-> "Popen shell", args |-> <<action>>, outcome |-> other]>>,
             warnings |-> shown]

\* Faulty variant: the path is looked for before the URL prefixes.
handle_button_click_path_first(button_config, exists, direct, other) ==
    LET action == str_strip(characters(button_config.action))
        shown == IF other = "raises" THEN {"Failed to execute action"} ELSE {}
    IN IF action = <<>>
       THEN [route |-> "none", calls |-> <<>>, warnings |-> {}]
       ELSE IF exists
       THEN [route |-> "open-path",
             calls |-> <<[fn |-> "os.startfile", args |-> <<expandvars(action)>>,
                          outcome |-> other]>>,
             warnings |-> shown]
       ELSE IF startswith(action, UrlPrefixes)
       THEN [route |-> "browser",
             calls |-> <<[fn |-> "webbrowser.open", args |-> <<action>>,
                          outcome |-> other]>>,
             warnings |-> shown]
       ELSE [route |-> "command",
             calls |-> <<[fn |-> "Popen", args |-> split(action), outcome |-> direct]>>,
             warnings |-> {}]

\* handle_button_click(button_config): the route taken, the launcher calls made in
\* their order (each with its arguments and with how it ended) and the warnings shown.
\* exists tells whether the expanded path is there; direct is how Popen with
\* shell=False ends, other how the one other call ends.
handle_button_click(button_config, exists, direct, other) ==
    LET action == str_strip(characters(button_config.action))
        shown == IF other = "raises" THEN {"Failed to execute action"} ELSE {}
    IN IF action = <<>>
       THEN [route |-> "none", calls |-> <<>>, warnings |-> {}]
       ELSE IF startswith(action, UrlPrefixes)
       THEN [route |-> "browser",
             calls |-> <<[fn |-> "webbrowser.open", args |-> <<action>>,
                          outcome |-> other]>>,
             warnings |-> shown]
       ELSE IF exists
       THEN [route |-> "open-path",
             calls |-> <<[fn |-> "os.startfile", args |-> <<expandvars(action)>>,
                          outcome |-> other]>>,
             warnings |-> shown]
       ELSE [route |-> "command",
             calls |-> IF direct = "OSError"
                       THEN <<[fn |-> "Popen", args |-> split(action), outcome |-> direct],
                              [fn |-> "Popen shell", args |-> <<action>>,
                               outcome |-> other]>>
                       ELSE <<[fn |-> "Popen", args |-> split(action),
                               outcome |-> direct]>>,
             warnings |-> IF direct = "OSError" THEN shown
                          ELSE IF direct = "raises" THEN {"Failed to execute action"}
                          ELSE {}]

NoLaunch == [action |-> "", route |-> "none", calls |-> <<>>, warned |-> FALSE]

\* The i-th button of the dock is clicked (the settings dialog, being modal, is not
\* open).  os.startfile returns nothing: it launches the path or raises.
dock_button_clicked(i, exists, direct, other) ==
    /\ raised = "none"
    /\ dialog_exec # "running"
    /\ i \in 1..Len(buttons)
    /\ \E done \in {handle_button_click(buttons[i], exists, direct, other)} :
          /\ done.route = "open-path" => other # "failed"
          /\ launched' = [action |-> buttons[i].action, route |-> done.route,
                          calls |-> done.calls, warned |-> done.warnings # {}]
          /\ warnings' = warnings \cup done.warnings
    /\ UNCHANGED <<dock_vars, table_vars, appearance_vars, buttons, settings_file,
                   writable, edits, started_with>>

\* The program is started, settings.json and buttons.json being as the last run or
\* another program left them: DockWindow.__init__ loads the settings and the buttons,
\* the dock is shown and placed.  A KeyError of load_settings ends the process.
main(settings_found, buttons_found) ==
    LET loaded == load_settings(settings_found)
        settings == loaded.settings
        dock == load_buttons(buttons_found)
    IN IF loaded.raised # "none"
       THEN /\ raised' = loaded.raised
            /\ settings_file' = loaded.file
            /\ warnings' = loaded.warnings
            /\ buttons_file' = buttons_found
            /\ started_with' = [settings |-> settings_found.state,
                                buttons |-> buttons_found.state]
            /\ UNCHANGED <<dock_vars, table, selected_row, last_call, appearance_vars,
                           buttons, writable, edits, launched>>
       ELSE /\ raised' = "none"
            /\ edge' = settings.dock_position
            /\ transparency' = settings.transparency
            /\ dock_color' = settings.dock_color
            /\ corner_radius' = settings_get(settings, "corner_radius", 16)
            /\ icon_size' = settings_get(settings, "icon_size", 32)
            /\ layout_spacing' = settings_get(settings, "layout_spacing", 5)
            /\ dock_offset' = settings_get(settings, "dock_offset", 10)
            /\ border_width' = settings_get(settings, "border_width", 10)
            /\ border_color' = settings_get(settings, "border_color", "#FFFFFF")
            /\ settings_file' = loaded.file
            /\ buttons_file' = dock.file
            /\ buttons' = dock.buttons
            /\ warnings' = loaded.warnings \cup dock.warnings
            /\ geometry' = place_dock(edge', dock_offset', update_size(edge').width,
                                      update_size(edge').height, screen)
            /\ is_hidden' = FALSE
            /\ settings_dialog_open' = FALSE
            /\ hide_timer' = FALSE
            /\ animation' = StoppedAnimation
            /\ dialog_exec' = "never"
            /\ last_pointer' = "none"
            /\ quiet' = FALSE
            /\ debounce_cancelled' = FALSE
            /\ suppressed' = FALSE
            /\ table' = <<>>
            /\ selected_row' = -1
            /\ last_call' = NoCall
            /\ launched' = NoLaunch
            /\ started_with' = [settings |-> settings_found.state,
                                buttons |-> buttons_found.state]
            /\ UNCHANGED <<screen, writable, edits>>

\* No settings dialog exists yet: its table has no rows.
TableIdle ==
    /\ table = <<>>
    /\ buttons_file = ButtonsFile(<<>>)
    /\ selected_row = -1
    /\ raised = "none"
    /\ last_call = NoCall

\* The appearance settings are those of get_default_settings.
DefaultAppearance ==
    /\ transparency = get_default_settings.transparency
    /\ dock_color = get_default_settings.dock_color
    /\ corner_radius = get_default_settings.corner_radius
    /\ icon_size = get_default_settings.icon_size
    /\ layout_spacing = get_default_settings.layout_spacing
    /\ border_width = get_default_settings.border_width
    /\ border_color = get_default_settings.border_color

\* settings.json holds the settings in memory, no warning was shown, nothing was
\* changed in a dialog and no button was clicked.
ConfigIdle ==
    /\ DefaultAppearance
    /\ settings_file = SettingsFile(DockSettings)
    /\ warnings = {}
    /\ edits = 0
    /\ launched = NoLaunch
    /\ started_with = [settings |-> "ok", buttons |-> "ok"]

\* After DockWindow.__init__, show() and the first place_dock.
DockInit ==
    /\ edge \in Edges
    /\ dock_offset \in Offsets
    /\ screen = [width |-> LargeScreen, height |-> SmallScreen]
    /\ geometry = place_dock(edge, dock_offset, update_size(edge).width,
                             update_size(edge).height, screen)
    /\ is_hidden = FALSE
    /\ settings_dialog_open = FALSE
    /\ hide_timer = FALSE
    /\ animation = StoppedAnimation
    /\ dialog_exec = "never"
    /\ last_pointer = "none"
    /\ quiet = FALSE
    /\ debounce_cancelled = FALSE
    /\ suppressed = FALSE
    /\ TableIdle
    /\ ConfigIdle
    /\ buttons = <<>>
    /\ writable = TRUE

Init == DockInit

\* The id of the position button of edge e.
PositionId(e) == (CHOOSE i \in 1..Len(positions) : positions[i] = e) - 1

Next ==
    \/ enterEvent
    \/ leaveEvent
    \/ hide_timer_timeout
    \/ animation_tick
    \/ show_settings
    \/ on_settings_dialog_closed
    \/ \E e \in Edges, off \in Offsets :
          SettingsDialog_apply_settings([pos |-> PositionId(e), offset_slider |-> off])

Spec == Init /\ [][Next]_vars

\* The dock on any of the screens, at any of the sizes, with the settings it was
\* started with (no Apply).
AutoHideInit ==
    /\ edge \in Edges
    /\ dock_offset \in Offsets
    /\ screen \in Screens
    /\ \E w \in DockSpans, h \in DockSpans :
          geometry = place_dock(edge, dock_offset, w, h, screen)
    /\ is_hidden = FALSE
    /\ settings_dialog_open = FALSE
    /\ hide_timer = FALSE
    /\ animation = StoppedAnimation
    /\ dialog_exec = "never"
    /\ last_pointer = "none"
    /\ quiet = FALSE
    /\ debounce_cancelled = FALSE
    /\ suppressed = FALSE
    /\ TableIdle
    /\ ConfigIdle
    /\ buttons = <<>>
    /\ writable = TRUE

AutoHideNext ==
    \/ enterEvent
    \/ leaveEvent
    \/ hide_timer_timeout
    \/ animation_tick
    \/ show_settings
    \/ on_settings_dialog_closed

SpecAutoHide == AutoHideInit /\ [][AutoHideNext]_vars

\* The event loop keeps delivering the timer's timeout and the animation's ticks.
FairSpec == SpecAutoHide /\ WF_vars(hide_timer_timeout) /\ WF_vars(animation_tick)

\* ------------------------------------------- the dialog's handlers ----
\* A click on the move-up button shown in row p (0-based): enabled buttons only.
click_move_up(p) ==
    /\ raised = "none"
    /\ p < rowCount
    /\ table[p + 1].up_enabled
    /\ move_button_up(table[p + 1].r)
    /\ UNCHANGED <<buttons_file, last_call>>
    /\ UNCHANGED <<dock_vars, config_vars>>

click_move_down(p) ==
    /\ raised = "none"
    /\ p < rowCount
    /\ table[p + 1].down_enabled
    /\ move_button_down(table[p + 1].r)
    /\ UNCHANGED <<buttons_file, last_call>>
    /\ UNCHANGED <<dock_vars, config_vars>>

click_delete(p, confirmed) ==
    /\ raised = "none"
    /\ p < rowCount
    /\ delete_button(table[p + 1].r, confirmed)
    /\ UNCHANGED <<buttons_file, last_call>>
    /\ UNCHANGED <<dock_vars, config_vars>>

\* add_new_button: the table is loaded again from the file, with an empty row added.
add_new_button ==
    /\ raised = "none"
    /\ Len(buttons_file.buttons) < MaxRows
    /\ table' = update_row_controls(load_buttons_to_table(TRUE),
                                    0..(Len(load_buttons_to_table(TRUE)) - 1))
    /\ selected_row' = selection_kept(Len(load_buttons_to_table(TRUE)))
    /\ UNCHANGED <<buttons_file, raised, last_call>>
    /\ UNCHANGED <<dock_vars, config_vars>>

\* The user edits the name cell of row p.
edit_name(p, text) ==
    /\ raised = "none"
    /\ p < rowCount
    /\ table' = [table EXCEPT ![p + 1].name = text]
    /\ UNCHANGED <<buttons_file, selected_row, raised, last_call>>
    /\ UNCHANGED <<dock_vars, config_vars>>

\* The dock as it is while the settings dialog runs.
DockWithDialog ==
    /\ edge = EDGE_LEFT
    /\ dock_offset = 0
    /\ screen = [width |-> LargeScreen, height |-> SmallScreen]
    /\ geometry = place_dock(edge, dock_offset, update_size(edge).width,
                             update_size(edge).height, screen)
    /\ is_hidden = FALSE
    /\ settings_dialog_open = TRUE
    /\ hide_timer = FALSE
    /\ animation = StoppedAnimation
    /\ dialog_exec = "running"
    /\ last_pointer = "none"
    /\ quiet = FALSE
    /\ debounce_cancelled = FALSE
    /\ suppressed = FALSE

\* SettingsDialog.__init__ has loaded the table from one of the sample documents.
ButtonsInit ==
    /\ DockWithDialog
    /\ \E listed \in BoundedSeq(SampleButtons, MaxRows - 1) :
          buttons_file = ButtonsFile(listed)
    /\ table = [i \in 1..Len(buttons_file.buttons) |->
                  create_controls_widget(buttons_file.buttons[i], i - 1,
                                         Len(buttons_file.buttons))]
    /\ selected_row = -1
    /\ raised = "none"
    /\ last_call = NoCall
    /\ ConfigIdle
    /\ buttons = buttons_file.buttons
    /\ writable \in BOOLEAN

ButtonsNext ==
    \/ \E p \in 0..(MaxRows - 1) : click_move_up(p)
    \/ \E p \in 0..(MaxRows - 1) : click_move_down(p)
    \/ \E p \in 0..(MaxRows - 1), confirmed \in BOOLEAN : click_delete(p, confirmed)
    \/ add_new_button
    \/ \E p \in 0..(MaxRows - 1), text \in NameTexts : edit_name(p, text)
    \/ SettingsDialog_apply_settings(NoEdit)

SpecButtons == ButtonsInit /\ [][ButtonsNext]_vars

\* --- rows are added and renamed, and the table is saved ---
SaveNext ==
    \/ add_new_button
    \/ \E p \in 0..(MaxRows - 1), text \in NameTexts : edit_name(p, text)
    \/ SettingsDialog_apply_settings(NoEdit)

SpecSave == ButtonsInit /\ [][SaveNext]_vars

\* --- the ordering operations, called by index on any table ---
call_move_button_up(row) ==
    /\ raised = "none"
    /\ row < rowCount
    /\ move_button_up(row)
    /\ last_call' = [op |-> "move_button_up", row |-> row]
    /\ UNCHANGED buttons_file
    /\ UNCHANGED <<dock_vars, config_vars>>

call_move_button_down(row) ==
    /\ raised = "none"
    /\ row < rowCount
    /\ move_button_down(row)
    /\ last_call' = [op |-> "move_button_down", row |-> row]
    /\ UNCHANGED buttons_file
    /\ UNCHANGED <<dock_vars, config_vars>>

\* A table freshly loaded from a document of one to MaxRows buttons.
OrderingInit ==
    /\ DockWithDialog
    /\ \E listed \in BoundedSeq(SampleButtons, MaxRows) \ {<<>>} :
          /\ buttons_file = ButtonsFile(listed)
          /\ table = [i \in 1..Len(listed) |->
                        create_controls_widget(listed[i], i - 1, Len(listed))]
    /\ selected_row = -1
    /\ raised = "none"
    /\ last_call = NoCall
    /\ ConfigIdle
    /\ buttons = buttons_file.buttons
    /\ writable = TRUE

OrderingNext ==
    \/ \E row \in 0..(MaxRows - 1) : call_move_button_up(row)
    \/ \E row \in 0..(MaxRows - 1) : call_move_button_down(row)

SpecOrdering == OrderingInit /\ [][OrderingNext]_vars

\* --- the settings document: loaded, changed in the dialog, applied ---
\* A file that is missing or cannot be parsed holds no document.
NoDocument == [key \in {} |-> 0]

\* For each key, the values of the sample documents other than the default.
Alternatives ==
    [dock_position |-> {EDGE_BOTTOM}, transparency |-> {150}, dock_color |-> {"#336699"},
     corner_radius |-> {-4}, icon_size |-> {8}, layout_spacing |-> {40},
     dock_offset |-> {MaxOffset}, border_width |-> {3}, border_color |-> {"#336699"}]

\* The sample documents: the default one, and the default one with one key absent
\* or with one key at another value.
SettingsDocuments ==
    {get_default_settings}
    \cup {[k \in SettingsKeys \ {key} |-> get_default_settings[k]] : key \in SettingsKeys}
    \cup UNION {{[get_default_settings EXCEPT ![key] = v] : v \in Alternatives[key]} :
                  key \in SettingsKeys}

SettingsFiles ==
    {[state |-> "missing", doc |-> NoDocument], [state |-> "corrupt", doc |-> NoDocument]}
    \cup {SettingsFile(doc) : doc \in SettingsDocuments}

\* The colours picked in the colour dialogs.
Colors == {"#336699"}

\* The largest value of each slider.
SliderMaxima ==
    [offset_slider |-> 100, trans_slider |-> 100, radius_slider |-> 50,
     border_width_slider |-> 20, icon_size_slider |-> 64, spacing_slider |-> 30]

\* What the user changes before a click on Apply: nothing, one slider moved to its
\* largest value, or another position button checked.
SampleEdits ==
    {NoEdit}
    \cup {[w \in {slider} |-> SliderMaxima[slider]] : slider \in DOMAIN SliderMaxima}
    \cup {[w \in {"pos"} |-> PositionId(e)] : e \in Edges}

\* The first start of the program, no file being there: load_settings and
\* load_buttons write the default documents if the files can be written.
SettingsInit ==
    /\ writable \in BOOLEAN
    /\ edge = get_default_settings.dock_position
    /\ dock_offset = get_default_settings.dock_offset
    /\ DefaultAppearance
    /\ settings_file = IF writable THEN SettingsFile(get_default_settings)
                       ELSE [state |-> "missing", doc |-> NoDocument]
    /\ buttons_file = IF writable THEN ButtonsFile(default_buttons)
                      ELSE [state |-> "missing", buttons |-> <<>>]
    /\ buttons = IF writable THEN default_buttons ELSE <<>>
    /\ warnings = IF writable THEN {}
                  ELSE {"Failed to save settings", "Failed to create buttons file",
                        "Failed to load buttons"}
    /\ screen = [width |-> LargeScreen, height |-> SmallScreen]
    /\ geometry = place_dock(edge, dock_offset, update_size(edge).width,
                             update_size(edge).height, screen)
    /\ is_hidden = FALSE
    /\ settings_dialog_open = FALSE
    /\ hide_timer = FALSE
    /\ animation = StoppedAnimation
    /\ dialog_exec = "never"
    /\ last_pointer = "none"
    /\ quiet = FALSE
    /\ debounce_cancelled = FALSE
    /\ suppressed = FALSE
    /\ table = <<>>
    /\ selected_row = -1
    /\ raised = "none"
    /\ last_call = NoCall
    /\ edits = 0
    /\ launched = NoLaunch
    /\ started_with = [settings |-> "missing", buttons |-> "missing"]

SettingsNext ==
    \/ \E found \in SettingsFiles \cup {settings_file} : main(found, buttons_file)
    \/ show_settings
    \/ on_settings_dialog_closed
    \/ \E color \in Colors, accepted \in BOOLEAN : choose_color(color, accepted)
    \/ \E color \in Colors, accepted \in BOOLEAN : choose_border_color(color, accepted)
    \/ \E edit \in SampleEdits : SettingsDialog_apply_settings(edit)
    \/ \E edit \in SampleEdits : apply_and_close_settings(edit)

SpecSettings == SettingsInit /\ [][SettingsNext]_vars

\* --- the dock's buttons: loaded at the start, clicked ---
\* The action texts of the sample buttons.
ActionTexts ==
    {"", " ", "https://a", "http://a", "www.a", " www.a", "wwwa", "$H/f", "b.exe",
     "ls -l "}

\* The sample buttons.json files: none, one that cannot be parsed, and one for each
\* action text with a single button of that action.
ButtonsFiles ==
    {[state |-> "missing", buttons |-> <<>>], [state |-> "corrupt", buttons |-> <<>>]}
    \cup {ButtonsFile(<<[name |-> "a", icon |-> "a.png", action |-> text]>>) :
            text \in ActionTexts}

LauncherNext ==
    \/ \E found \in ButtonsFiles \cup {buttons_file} : main(settings_file, found)
    \/ \E i \in 1..MaxRows, exists \in BOOLEAN, direct \in DirectOutcomes,
          other \in OtherOutcomes : dock_button_clicked(i, exists, direct, other)

SpecLauncher == SettingsInit /\ [][LauncherNext]_vars

\* ---------------------------------------------------------------- claims

\* C1: a hide starts only when the most recent pointer event is a pointer-leave:
\* after a pointer-enter the debounce timer is not pending, and every step that sets
\* is_hidden is taken with pointer-leave as the most recent pointer event.
C1_HideOnlyAfterLeave ==
    /\ [](last_pointer = "enter" => ~hide_timer)
    /\ [][(~is_hidden /\ is_hidden') => last_pointer = "leave"]_vars

\* a pointer-enter has stopped a pending debounce timer and the dock stayed VISIBLE
C1_Witness ==
    /\ debounce_cancelled
    /\ last_pointer = "enter"
    /\ AutoHideState = "VISIBLE"
    /\ dialog_exec = "never"

\* C2: from VISIBLE with no dialog open, once the pointer has left and no pointer or
\* dialog event follows, the dock gets to ANIMATING_OUT, and from there to HIDDEN,
\* resting at the hidden rect.
C2_QuietLeaveHides ==
    /\ (AutoHideState = "VISIBLE" /\ ~settings_dialog_open /\ quiet)
          ~> ((AutoHideState = "HIDDEN" /\ geometry = get_hidden_geometry) \/ ~quiet)
    /\ [][(AutoHideState = "VISIBLE" /\ AutoHideState' # "VISIBLE" /\ quiet')
            => AutoHideState' = "ANIMATING_OUT"]_vars
    /\ [][(AutoHideState # "HIDDEN" /\ AutoHideState' = "HIDDEN")
            => AutoHideState = "ANIMATING_OUT"]_vars

\* the dock rests hidden after an undisturbed pointer-leave
C2_Witness ==
    /\ AutoHideState = "HIDDEN"
    /\ quiet
    /\ geometry = get_hidden_geometry

\* C3: while the settings dialog is open the dock is neither ANIMATING_OUT nor HIDDEN;
\* a timer expiry with the dialog open changes nothing but the timer, which is
\* discarded; opening the dialog while the dock is hidden starts the show animation.
C3_NoHideWhileDialogOpen ==
    /\ [](settings_dialog_open => AutoHideState \in {"VISIBLE", "ANIMATING_IN"})
    /\ [][(hide_timer_timeout /\ settings_dialog_open)
            => (UNCHANGED <<is_hidden, animation, geometry>> /\ ~hide_timer')]_vars
    /\ [][(show_settings /\ is_hidden) => AutoHideState' = "ANIMATING_IN"]_vars

\* the pointer left while the dialog was open, and the timer has expired since
C3_Witness ==
    /\ settings_dialog_open
    /\ quiet
    /\ ~hide_timer
    /\ AutoHideState = "VISIBLE"

\* C4: once the dialog has been opened and closed, a timer expiry in VISIBLE starts
\* the hide animation.
C4_GuardNotSticky ==
    [][(hide_timer_timeout /\ dialog_exec = "finished" /\ AutoHideState = "VISIBLE")
        => AutoHideState' = "ANIMATING_OUT"]_vars

\* the pointer left after the dialog was closed, and the hide animation runs
C4_Witness ==
    /\ dialog_exec = "finished"
    /\ quiet
    /\ AutoHideState = "ANIMATING_OUT"

\* C5: a pointer-enter while is_hidden (HIDDEN or ANIMATING_OUT) stops the timer and
\* starts the inbound animation from the current geometry to the visible rect; the
\* last tick of an inbound animation leaves the dock VISIBLE.
C5_EnterReversesFromCurrent ==
    /\ [][(enterEvent /\ is_hidden)
            => /\ ~hide_timer'
               /\ AutoHideState' = "ANIMATING_IN"
               /\ animation'.startValue = geometry
               /\ animation'.endValue = get_visible_geometry]_vars
    /\ [][(animation_tick /\ ~is_hidden /\ animation'.state = "Stopped")
            => AutoHideState' = "VISIBLE"]_vars

\* an inbound animation that started from an interpolated geometry, away from both
\* the hidden and the visible rect
C5_Witness ==
    /\ AutoHideState = "ANIMATING_IN"
    /\ last_pointer = "enter"
    /\ edge = EDGE_LEFT
    /\ animation.endValue = get_visible_geometry
    /\ animation.startValue.x > -animation.startValue.width + HiddenSliver
    /\ animation.startValue.x < animation.endValue.x

\* The span of the interval [pos, pos + len) that lies within [0, bound).
SpanWithin(pos, len, bound) ==
    LET lo == IF pos > 0 THEN pos ELSE 0
        hi == IF pos + len < bound THEN pos + len ELSE bound
    IN IF hi > lo THEN hi - lo ELSE 0

\* rect v is exactly dock_offset units from the dock's own screen boundary
MainAxisAtOffset(v) ==
    /\ edge = EDGE_LEFT => v.x = dock_offset
    /\ edge = EDGE_RIGHT => v.x + v.width = screen.width - dock_offset
    /\ edge = EDGE_TOP => v.y = dock_offset
    /\ edge = EDGE_BOTTOM => v.y + v.height = screen.height - dock_offset

\* rect v is centred on the cross axis, at (screenSpan - dockSpan) / 2 rounded down
CrossAxisCentred(v) ==
    /\ edge \in {EDGE_TOP, EDGE_BOTTOM} =>
          /\ 2 * v.x <= screen.width - v.width
          /\ 2 * v.x + 1 >= screen.width - v.width
    /\ edge \in {EDGE_LEFT, EDGE_RIGHT} =>
          /\ 2 * v.y <= screen.height - v.height
          /\ 2 * v.y + 1 >= screen.height - v.height

\* rect v lies fully within the screen on the cross axis
CrossAxisWithinScreen(v) ==
    /\ edge \in {EDGE_TOP, EDGE_BOTTOM} => (v.x >= 0 /\ v.x + v.width <= screen.width)
    /\ edge \in {EDGE_LEFT, EDGE_RIGHT} => (v.y >= 0 /\ v.y + v.height <= screen.height)

\* the dock is no larger than the screen on the cross axis
FitsCrossAxis ==
    IF edge \in {EDGE_TOP, EDGE_BOTTOM} THEN geometry.width <= screen.width
    ELSE geometry.height <= screen.height

\* C6 as claimed: for every edge, offset, dock size and screen the visible rect (of
\* get_visible_geometry and of place_dock) is within the screen on the cross axis,
\* centred there, and dock_offset units from its own boundary on the main axis.
C6_VisibleRectAsClaimed ==
    \A v \in {get_visible_geometry,
               place_dock(edge, dock_offset, geometry.width, geometry.height, screen)} :
        /\ v.width = geometry.width /\ v.height = geometry.height
        /\ MainAxisAtOffset(v)
        /\ CrossAxisCentred(v)
        /\ CrossAxisWithinScreen(v)

\* C6 as amended: the visible rect is dock_offset units from its own boundary on the
\* main axis and centred on the cross axis; it is within the screen on the cross axis
\* whenever the dock is no larger than the screen on that axis.
C6_VisibleRect ==
    \A v \in {get_visible_geometry,
               place_dock(edge, dock_offset, geometry.width, geometry.height, screen)} :
        /\ v.width = geometry.width /\ v.height = geometry.height
        /\ MainAxisAtOffset(v)
        /\ CrossAxisCentred(v)
        /\ FitsCrossAxis => CrossAxisWithinScreen(v)

\* a dock on the right edge, at a non-zero offset, that fits the screen, sliding in
\* to its visible rect
C6_Witness ==
    /\ AutoHideState = "ANIMATING_IN"
    /\ edge = EDGE_RIGHT
    /\ dock_offset > 0
    /\ FitsCrossAxis
    /\ animation.endValue = get_visible_geometry

\* C7: for every edge, dock size, screen and current rect the hidden rect crosses the
\* screen boundary of the dock's own edge with exactly HiddenSliver units within the
\* screen, and has the cross-axis coordinate, width and height of the current rect.
\* A dock resting HIDDEN is at such a rect.
C7_HiddenRect ==
    /\ LET h == get_hidden_geometry
       IN /\ h.width = geometry.width /\ h.height = geometry.height
          /\ edge \in {EDGE_LEFT, EDGE_RIGHT} =>
                /\ h.y = geometry.y
                /\ SpanWithin(h.x, h.width, screen.width) = HiddenSliver
          /\ edge \in {EDGE_TOP, EDGE_BOTTOM} =>
                /\ h.x = geometry.x
                /\ SpanWithin(h.y, h.height, screen.height) = HiddenSliver
          /\ edge = EDGE_LEFT => h.x < 0
          /\ edge = EDGE_RIGHT => h.x + h.width > screen.width
          /\ edge = EDGE_TOP => h.y < 0
          /\ edge = EDGE_BOTTOM => h.y + h.height > screen.height
    /\ AutoHideState = "HIDDEN" =>
          IF edge \in {EDGE_LEFT, EDGE_RIGHT}
          THEN SpanWithin(geometry.x, geometry.width, screen.width) = HiddenSliver
          ELSE SpanWithin(geometry.y, geometry.height, screen.height) = HiddenSliver

\* a hide animation towards the hidden rect of an interpolated current rect
C7_Witness ==
    /\ AutoHideState = "ANIMATING_OUT"
    /\ animation.currentTime > 0
    /\ animation.endValue = get_hidden_geometry
    /\ animation.startValue # get_visible_geometry

\* The list without its entry at row p (0-based).
WithoutRow(list, p) ==
    [i \in 1..(Len(list) - 1) |-> IF i <= p THEN list[i] ELSE list[i + 1]]

\* C8: a confirmed click on the delete control shown in row p removes exactly the
\* entry shown in row p and keeps the others in order; a declined one changes nothing.
C8_DeleteRemovesDisplayedRow ==
    [][\A p \in 0..(MaxRows - 1) :
          /\ click_delete(p, TRUE) => ButtonList(table') = WithoutRow(ButtonList(table), p)
          /\ click_delete(p, FALSE) => ButtonList(table') = ButtonList(table)]_vars

\* C9: add_new_button appends one placeholder to the list in the table and keeps
\* every entry that was there, in order.
C9_AddAppendsPlaceholder ==
    [][add_new_button => ButtonList(table') = Append(ButtonList(table), Placeholder)]_vars

\* C10: move_button_up on row 0 and move_button_down on the last row leave the list
\* as it is and raise nothing, for a table of any length from 1.
C10_BoundaryMovesAreNoOps ==
    [][(call_move_button_up(0) \/ call_move_button_down(rowCount - 1))
        => (ButtonList(table') = ButtonList(table) /\ raised' = "none")]_vars

\* move_button_down was called on the only row of a table of one row
C10_Witness ==
    /\ rowCount = 1
    /\ last_call = [op |-> "move_button_down", row |-> 0]
    /\ raised = "none"

\* The list with its entries at rows i and j (0-based) exchanged.
SwapRows(list, i, j) ==
    [k \in 1..Len(list) |->
        IF k = i + 1 THEN list[j + 1] ELSE IF k = j + 1 THEN list[i + 1] ELSE list[k]]

\* Every descriptor occurs as often in list a as in list b.
IsPermutation(a, b) ==
    /\ Len(a) = Len(b)
    /\ \A d \in {a[k] : k \in 1..Len(a)} \cup {b[k] : k \in 1..Len(b)} :
          Cardinality({k \in 1..Len(a) : a[k] = d}) =
          Cardinality({k \in 1..Len(b) : b[k] = d})

\* C11: move_button_up(i) with i > 0 exchanges the descriptors of rows i and i - 1,
\* move_button_down(i) with i below the last row those of rows i and i + 1; every
\* other row is unchanged, the list is a permutation of what it was, and the row the
\* moved item went to (i - 1 or i + 1) is the selected row.
C11_MovesSwapNeighbours ==
    [][\A i \in 0..(MaxRows - 1) :
          /\ (call_move_button_up(i) /\ i > 0) =>
                /\ ButtonList(table') = SwapRows(ButtonList(table), i, i - 1)
                /\ IsPermutation(ButtonList(table'), ButtonList(table))
                /\ selected_row' = i - 1
                /\ raised' = "none"
          /\ (call_move_button_down(i) /\ i < rowCount - 1) =>
                /\ ButtonList(table') = SwapRows(ButtonList(table), i, i + 1)
                /\ IsPermutation(ButtonList(table'), ButtonList(table))
                /\ selected_row' = i + 1
                /\ raised' = "none"]_vars

\* the last row of a table of MaxRows rows was moved down from the row above it, and
\* the table is no longer in the order of the document it was loaded from
C11_Witness ==
    /\ rowCount = MaxRows
    /\ last_call = [op |-> "move_button_down", row |-> MaxRows - 2]
    /\ selected_row = MaxRows - 1
    /\ ButtonList(table) # buttons_file.buttons
    /\ IsPermutation(ButtonList(table), buttons_file.buttons)

\* The descriptor has a name that is not empty and not only whitespace.
HasName(d) == d.name \notin {"", " "}

\* C12: save_buttons, when the write succeeds, leaves in buttons.json exactly the
\* entries of the table whose name is not empty and not only whitespace, in the order
\* of the table; a table whose names are all non-empty is written in exactly its order.
C12_SaveDropsBlankNames ==
    [][(SettingsDialog_apply_settings(NoEdit) /\ writable) =>
          /\ buttons_file' = ButtonsFile(SelectSeq(ButtonList(table), HasName))
          /\ (\A i \in 1..rowCount : HasName(table[i])) =>
                buttons_file'.buttons = ButtonList(table)]_vars

\* a table with a renamed row and a placeholder was saved: the file holds the renamed
\* row and not the placeholder
C12_Witness ==
    /\ \E i \in 1..rowCount : table[i].name = ""
    /\ \E i \in 1..Len(buttons_file.buttons) : buttons_file.buttons[i].name = "z"
    /\ buttons_file.buttons = SelectSeq(ButtonList(table), HasName)
    /\ Len(buttons_file.buttons) < rowCount

C15_MissingKeyTakesDefault ==
    [][\A found \in SettingsFiles : \A key \in SettingsKeys :
          (/\ main(found, buttons_file)
           /\ found.state = "ok"
           /\ DOMAIN found.doc = SettingsKeys \ {key}) =>
             /\ raised' = "none"
             /\ DockSettings' = [k \in SettingsKeys |->
                                   IF k = key THEN get_default_settings[k]
                                   ELSE found.doc[k]]]_vars

\* C16: in every reachable state transparency is in 0..100 and corner_radius,
\* icon_size, layout_spacing, dock_offset and border_width are at least 0.
C16_SettingsWithinRanges ==
    /\ transparency \in 0..100
    /\ corner_radius >= 0
    /\ icon_size >= 0
    /\ layout_spacing >= 0
    /\ dock_offset >= 0
    /\ border_width >= 0

\* C17: the settings in memory change only through Apply, which writes all of them
\* to settings.json: choosing a dock colour or a border colour and closing the dialog
\* leave the settings in memory as they were, and equal to the file if they were so.
C17_SettingsChangeOnlyByApply ==
    [][/\ \A edit \in SampleEdits :
             (apply_clicked(edit) /\ writable) => settings_file' = SettingsFile(DockSettings')
       /\ (\/ \E color \in Colors, accepted \in BOOLEAN : choose_color(color, accepted)
           \/ \E color \in Colors, accepted \in BOOLEAN : choose_border_color(color, accepted)
           \/ on_settings_dialog_closed) =>
             /\ DockSettings' = DockSettings
             /\ settings_file = SettingsFile(DockSettings) =>
                   settings_file' = SettingsFile(DockSettings')]_vars

\* C18: an Apply whose writes fail reports each failure by a warning, raises
\* nothing, leaves the files as they were and leaves in memory the values the dialog
\* emitted, not those from before the Apply.
C18_FailedWriteIsReported ==
    [][\A edit \in SampleEdits :
          (apply_clicked(edit) /\ ~writable) =>
             /\ DockSettings' = new_settings(with_edit(setup_customization_tab, edit))
             /\ {"Failed to save settings", "Failed to save buttons"} \subseteq warnings'
             /\ settings_file' = settings_file
             /\ buttons_file' = buttons_file
             /\ raised' = "none"]_vars

\* the transparency slider was moved to 100 and applied while settings.json, holding
\* the defaults, could not be written: the memory has the new value, the file has not
C18_Witness ==
    /\ ~writable
    /\ dialog_exec = "running"
    /\ settings_file = SettingsFile(get_default_settings)
    /\ transparency = 100
    /\ "Failed to save settings" \in warnings
    /\ raised = "none"

\* The document holds the nine keys, and its numbers are in the documented ranges.
WithinDocumentedRanges(doc) ==
    /\ DOMAIN doc = SettingsKeys
    /\ doc.transparency \in 0..100
    /\ \A k \in {"corner_radius", "icon_size", "layout_spacing", "dock_offset",
                 "border_width"} : doc[k] >= 0

\* C19, for the documents that hold all nine keys within their documented ranges:
\* with settings.json and buttons.json loaded and nothing changed in the dialog, a
\* click on Apply leaves both documents with the keys and values they had.
C19_ApplyUneditedKeepsDocuments ==
    [][(/\ SettingsDialog_apply_settings(NoEdit)
        /\ writable
        /\ settings_file.state = "ok"
        /\ WithinDocumentedRanges(settings_file.doc)
        /\ DockSettings = settings_file.doc
        /\ buttons_file.state = "ok"
        /\ ButtonList(table) = buttons_file.buttons) =>
          /\ settings_file' = settings_file
          /\ buttons_file' = buttons_file]_vars

\* C14: a start that finds buttons.json missing or unparseable takes the default
\* button list for the dock and writes it to the file at once (the file being
\* writable), so that the next load reads the defaults.
C14_MissingButtonsGetDefaults ==
    [][\A found \in ButtonsFiles \cup {buttons_file} :
          (main(settings_file, found) /\ found.state # "ok" /\ writable) =>
             /\ buttons' = default_buttons
             /\ buttons_file' = ButtonsFile(default_buttons)
             /\ "Failed to load buttons" \notin warnings']_vars

\* The route the classification order gives to a text: the browser for a URL prefix,
\* else the path handler if the expanded path exists, else a command.
FirstMatch(text, exists) ==
    IF startswith(text, UrlPrefixes) THEN "browser"
    ELSE IF exists THEN "open-path"
    ELSE "command"

\* The launcher calls that belong to a route.
RouteCalls(route) ==
    CASE route = "browser" -> {"webbrowser.open"}
      [] route = "open-path" -> {"os.startfile"}
      [] route = "command" -> {"Popen", "Popen shell"}
      [] route = "none" -> {}

\* The last click made at least one launcher call, and only calls of its route.
OneRouteTaken(launch) ==
    /\ launch.calls # <<>>
    /\ \A k \in 1..Len(launch.calls) : launch.calls[k].fn \in RouteCalls(launch.route)

\* C20 as stated: every action that is not the empty text takes exactly one route,
\* the first that matches the text: browser, open-path, command.
C20_NonEmptyActionTakesFirstRoute ==
    [][\A i \in 1..MaxRows, exists \in BOOLEAN, direct \in DirectOutcomes,
          other \in OtherOutcomes :
          (dock_button_clicked(i, exists, direct, other) /\ buttons[i].action # "") =>
             /\ launched'.route = FirstMatch(characters(buttons[i].action), exists)
             /\ OneRouteTaken(launched')]_vars

\* C20, amended: the action is stripped of the whitespace around it; if nothing is
\* left no route is taken and no call is made, otherwise exactly one route is taken,
\* the first that matches the stripped text: browser, open-path, command.
C20_StrippedActionTakesFirstRoute ==
    [][\A i \in 1..MaxRows, exists \in BOOLEAN, direct \in DirectOutcomes,
          other \in OtherOutcomes :
          dock_button_clicked(i, exists, direct, other) =>
             LET text == str_strip(characters(buttons[i].action))
             IN IF text = <<>>
                THEN launched'.route = "none" /\ launched'.calls = <<>>
                ELSE /\ launched'.route = FirstMatch(text, exists)
                     /\ OneRouteTaken(launched')]_vars

\* the button whose action is $H/f was clicked while /h/f existed: the path handler
\* was called, once, with the expanded path
C20_Witness ==
    /\ launched.action = "$H/f"
    /\ launched.route = "open-path"
    /\ Len(launched.calls) = 1
    /\ launched.calls[1].fn = "os.startfile"
    /\ launched.calls[1].args = <<characters("/h/f")>>

\* The launcher calls of the last click that launched their target.
Launches(launch) ==
    {k \in 1..Len(launch.calls) : launch.calls[k].outcome \in {"started", "ok"}}

\* C21: a command is first launched directly, with the words of the action as
\* program and arguments; the shell launch is made only after the direct launch
\* raised OSError (the program was not found), and then it is made; so no shell
\* launch follows a direct launch that started the process, and at most one launch
\* per click starts a process.
C21_DirectLaunchBeforeShell ==
    [][\A i \in 1..MaxRows, exists \in BOOLEAN, direct \in DirectOutcomes,
          other \in OtherOutcomes :
          (dock_button_clicked(i, exists, direct, other) /\ launched'.route = "command") =>
             LET calls == launched'.calls
             IN /\ Len(calls) \in {1, 2}
                /\ calls[1].fn = "Popen"
                /\ calls[1].args = split(str_strip(characters(buttons[i].action)))
                /\ Len(calls) = 2 <=> calls[1].outcome = "OSError"
                /\ Len(calls) = 2 => calls[2].fn = "Popen shell"
                /\ Cardinality(Launches(launched')) <= 1]_vars

\* the command ls -l was launched directly as the words ls and -l, which raised
\* OSError, and was then launched through the shell
C21_Witness ==
    /\ launched.action = "ls -l "
    /\ launched.route = "command"
    /\ Len(launched.calls) = 2
    /\ launched.calls[1].args = <<characters("ls"), characters("-l")>>
    /\ launched.calls[1].outcome = "OSError"
    /\ launched.calls[2].outcome = "ok"

\* C22: a click whose launcher calls all failed to launch their target shows the
\* warning "Failed to execute action", raises nothing and changes neither the
\* auto-hide state nor the settings nor the buttons.
C22_FailedLaunchIsWarned ==
    [][\A i \in 1..MaxRows, exists \in BOOLEAN, direct \in DirectOutcomes,
          other \in OtherOutcomes :
          (/\ dock_button_clicked(i, exists, direct, other)
           /\ launched'.calls # <<>>
           /\ Launches(launched') = {}) =>
             /\ launched'.warned
             /\ "Failed to execute action" \in warnings'
             /\ raised' = "none"
             /\ UNCHANGED <<dock_vars, appearance_vars, buttons>>]_vars

C24_SuppressedExpiryNotRetried ==
    /\ [][(hide_timer_timeout /\ settings_dialog_open) =>
             /\ ~hide_timer'
             /\ UNCHANGED <<is_hidden, geometry, animation>>]_vars
    /\ [][on_settings_dialog_closed =>
             UNCHANGED <<hide_timer, is_hidden, geometry, animation>>]_vars
    /\ [](suppressed => (~hide_timer /\ ~is_hidden))

\* the pointer left, the timer expired while the dialog was open, the dialog was then
\* closed: the dock is VISIBLE and no timer is pending
C24_Witness ==
    /\ suppressed
    /\ last_pointer = "leave"
    /\ dialog_exec = "finished"
    /\ ~settings_dialog_open
    /\ ~hide_timer
    /\ AutoHideState = "VISIBLE"

\* C25: whenever the dock is VISIBLE, no animation running, its geometry is the
\* visible rect of the current edge, offset and size.
C25_VisibleDockAtVisibleRect ==
    AutoHideState = "VISIBLE" => geometry = get_visible_geometry

\* C26: in every reachable state of the button table, the row number bound into the
\* move-up, move-down and delete controls of each row is the position of that row,
\* and so a row the table has.
C26_ControlsBoundToOwnRow ==
    \A i \in 1..rowCount : table[i].r = i - 1 /\ table[i].r \in 0..(rowCount - 1)

====
